---- MODULE Spec2Model ----
(***************************************************************************)
(* A model of sql-review-ai: the CI review script                          *)
(* (.github/workflows/run_sql_review.py) and the lint gateway (main.py).   *)
(*                                                                         *)
(* A text is a sequence of one-character strings.  Regular expressions are *)
(* modelled by matchers that follow Python's re semantics (leftmost match, *)
(* greedy quantifiers with backtracking, non-overlapping substitution).    *)
(***************************************************************************)
EXTENDS Integers, Sequences, FiniteSets, TLC

VARIABLES
    \* ---- main() of run_sql_review.py
    pc,              \* where main() is
    changed,         \* what get_changed_files() returned
    target_files,    \* the filtered list main() walks
    file_idx,        \* index of the file of the outer loop (0: none yet)
    contents,        \* snippets of that file not reviewed yet
    report_content,  \* the sections collected so far
    has_failure,
    report_file,     \* sql_review_report.md: <<>> or <<document>>
    report_writes,   \* how many times the report file was written
    exit_status,     \* <<>> while the process runs, then <<status>>
    sent,            \* every call of call_dify_workflow, in order
    \* ---- one lint_sql request of main.py
    g_pc, request_sql, security_result, temp_file_path, tmp_files, tmp_created,
    linter_runs, linter, response,
    \* ---- mask_pii applied to a text, then applied again
    m_pc, m_text, m_once, m_twice,
    \* ---- extract_relevant_chunks applied to a long file
    c_pc, c_total, c_hunks, c_out

rvars == <<pc, changed, target_files, file_idx, contents, report_content,
           has_failure, report_file, report_writes, exit_status, sent>>
gvars == <<g_pc, request_sql, security_result, temp_file_path, tmp_files, tmp_created,
           linter_runs, linter, response>>
mvars == <<m_pc, m_text, m_once, m_twice>>
cvars == <<c_pc, c_total, c_hunks, c_out>>
vars == <<rvars, gvars, mvars, cvars>>

(***************************************************************************)
(* Character classes                                                       *)
(***************************************************************************)
NL == "\n"
Digit == {"0", "1", "2", "3", "4", "5", "6", "7", "8", "9"}
LowerSeq == <<"a","b","c","d","e","f","g","h","i","j","k","l","m",
              "n","o","p","q","r","s","t","u","v","w","x","y","z">>
UpperSeq == <<"A","B","C","D","E","F","G","H","I","J","K","L","M",
              "N","O","P","Q","R","S","T","U","V","W","X","Y","Z">>
Lower == {LowerSeq[i] : i \in 1..26}
Upper == {UpperSeq[i] : i \in 1..26}
Letter == Lower \cup Upper
\* \s
Space == {" ", NL, "\t"}
\* \w
WordCh == Letter \cup Digit \cup {"_"}

ToUpper(c) == IF c \in Lower THEN UpperSeq[CHOOSE i \in 1..26 : LowerSeq[i] = c] ELSE c

InClass(t, i, S) == i >= 1 /\ i <= Len(t) /\ t[i] \in S
\* n consecutive characters of class S starting at i
RunOf(t, i, n, S) == \A k \in 0..(n - 1) : InClass(t, i + k, S)

\* length of the longest run of class-S characters starting at i
MaxRun(t, i, S) ==
    IF ~InClass(t, i, S) THEN 0
    ELSE (CHOOSE k \in (i + 1)..(Len(t) + 1) :
            /\ ~InClass(t, k, S)
            /\ \A j \in (i + 1)..(k - 1) : InClass(t, j, S)) - i

Slice(t, a, b) == IF a > b THEN <<>> ELSE SubSeq(t, a, b)

(***************************************************************************)
(* mask_pii (run_sql_review.py)                                            *)
(***************************************************************************)
\* [-\s]
RrnSep == {"-"} \cup Space
\* [1-4]
RrnFirst == {"1", "2", "3", "4"}
\* [-.\s]
PhoneSep == {"-", "."} \cup Space
\* 01[016789]
PhoneThird == {"0", "1", "6", "7", "8", "9"}
\* [a-zA-Z0-9._%+-]
EmailLocal == Letter \cup Digit \cup {".", "_", "%", "+", "-"}
\* [a-zA-Z0-9.-]
EmailDomain == Letter \cup Digit \cup {".", "-"}

\* (?<!\d)(\d{6})[-\s]*([1-4]\d{6})(?!\d) matched at i: the index of the
\* match's last character, 0 when there is no match at i.
RrnMatchEnd(t, i) ==
    IF ~InClass(t, i - 1, Digit) /\ RunOf(t, i, 6, Digit)
    THEN LET j == i + 6 + MaxRun(t, i + 6, RrnSep)
         IN  IF /\ InClass(t, j, RrnFirst)
                /\ RunOf(t, j + 1, 6, Digit)
                /\ ~InClass(t, j + 7, Digit)
             THEN j + 6
             ELSE 0
    ELSE 0

\* the leftmost position from pos on where the pattern matches, 0: none
NextRrn(t, pos) ==
    IF \E i \in pos..Len(t) : RrnMatchEnd(t, i) > 0
    THEN CHOOSE i \in pos..Len(t) :
            /\ RrnMatchEnd(t, i) > 0
            /\ \A j \in pos..(i - 1) : RrnMatchEnd(t, j) = 0
    ELSE 0

RECURSIVE SubRrn(_, _)
\* re.sub(rrn_pattern, r'\1-*******', text) from position pos on: the
\* text up to the next match is copied, the match is replaced, and the
\* scan goes on behind the match
SubRrn(t, pos) ==
    LET i == NextRrn(t, pos)
    IN  IF i = 0 THEN Slice(t, pos, Len(t))
        ELSE Slice(t, pos, i - 1) \o Slice(t, i, i + 5)
               \o <<"-", "*", "*", "*", "*", "*", "*", "*">>
               \o SubRrn(t, RrnMatchEnd(t, i) + 1)

\* The start of group 3 when (\d{3,4})[-.\s]?(\d{4}) matches at a with a
\* middle group of n digits, 0 otherwise.
PhoneTail(t, a, n) ==
    IF RunOf(t, a, n, Digit)
    THEN LET b == a + n + (IF InClass(t, a + n, PhoneSep) THEN 1 ELSE 0)
         IN  IF RunOf(t, b, 4, Digit) THEN b ELSE 0
    ELSE 0

\* (01[016789])[-.\s]?(\d{3,4})[-.\s]?(\d{4}) matched at i: the start of
\* group 3 (the match ends three characters later), 0 when no match at i.
\* The greedy \d{3,4} tries four digits before three.
PhoneGroup3(t, i) ==
    IF /\ InClass(t, i, {"0"}) /\ InClass(t, i + 1, {"1"})
       /\ InClass(t, i + 2, PhoneThird)
    THEN LET a == i + 3 + (IF InClass(t, i + 3, PhoneSep) THEN 1 ELSE 0)
         IN  IF PhoneTail(t, a, 4) > 0 THEN PhoneTail(t, a, 4)
             ELSE PhoneTail(t, a, 3)
    ELSE 0

NextPhone(t, pos) ==
    IF \E i \in pos..Len(t) : PhoneGroup3(t, i) > 0
    THEN CHOOSE i \in pos..Len(t) :
            /\ PhoneGroup3(t, i) > 0
            /\ \A j \in pos..(i - 1) : PhoneGroup3(t, j) = 0
    ELSE 0

RECURSIVE SubPhone(_, _)
\* re.sub(phone_pattern, r'\1-****-\3', text) from position pos on
SubPhone(t, pos) ==
    LET i == NextPhone(t, pos)
        g == PhoneGroup3(t, i)
    IN  IF i = 0 THEN Slice(t, pos, Len(t))
        ELSE Slice(t, pos, i - 1) \o Slice(t, i, i + 2)
               \o <<"-", "*", "*", "*", "*", "-">>
               \o Slice(t, g, g + 3) \o SubPhone(t, g + 4)

\* (@[a-zA-Z0-9.-]+\.[a-zA-Z]{2,}) matched with "@" at a: the index of the
\* match's last character, 0 when there is none.  The greedy domain part
\* backs off to the last "." that at least two letters follow.
EmailDomainEnd(t, a) ==
    IF ~InClass(t, a, {"@"}) THEN 0
    ELSE LET d == a + MaxRun(t, a + 1, EmailDomain)
             dots == {p \in (a + 2)..d :
                        t[p] = "." /\ RunOf(t, p + 1, 2, Letter)}
         IN  IF dots = {} THEN 0
             ELSE LET p == CHOOSE x \in dots : \A y \in dots : y <= x
                  IN  p + MaxRun(t, p + 1, Letter)

\* ([a-zA-Z0-9._%+-]+)(@...) matched at i: [at |-> index of "@", end |->
\* index of the last character], end = 0 when there is no match at i.
EmailMatch(t, i) ==
    LET n == MaxRun(t, i, EmailLocal)
    IN  IF n = 0 THEN [at |-> 0, end |-> 0]
        ELSE [at |-> i + n, end |-> EmailDomainEnd(t, i + n)]

NextEmail(t, pos) ==
    IF \E i \in pos..Len(t) : EmailMatch(t, i).end > 0
    THEN CHOOSE i \in pos..Len(t) :
            /\ EmailMatch(t, i).end > 0
            /\ \A j \in pos..(i - 1) : EmailMatch(t, j).end = 0
    ELSE 0

RECURSIVE SubEmail(_, _)
\* re.sub(email_pattern, r'***\2', text) from position pos on
SubEmail(t, pos) ==
    LET i == NextEmail(t, pos)
        m == EmailMatch(t, i)
    IN  IF i = 0 THEN Slice(t, pos, Len(t))
        ELSE Slice(t, pos, i - 1) \o <<"*", "*", "*">>
               \o Slice(t, m.at, m.end) \o SubEmail(t, m.end + 1)

mask_pii(text) ==
    IF text = <<>> THEN text
    ELSE SubEmail(SubPhone(SubRrn(text, 1), 1), 1)

(***************************************************************************)
(* check_security (main.py)                                                *)
(***************************************************************************)
dangerous_keywords ==
    << <<"D","R","O","P">>, <<"T","R","U","N","C","A","T","E">>,
       <<"D","E","L","E","T","E">>, <<"A","L","T","E","R">>,
       <<"G","R","A","N","T">> >>
SelectWord == <<"S","E","L","E","C","T">>

\* the word w at position i of t, compared case-insensitively
MatchesAtCI(t, i, w) ==
    /\ i >= 1
    /\ i + Len(w) - 1 <= Len(t)
    /\ \A k \in 1..Len(w) : ToUpper(t[i + k - 1]) = w[k]

\* re.search(rf"\b{word}\b", sql, re.IGNORECASE)
KeywordFound(sql, w) ==
    \E i \in 1..Len(sql) :
        /\ MatchesAtCI(sql, i, w)
        /\ ~InClass(sql, i - 1, WordCh)
        /\ ~InClass(sql, i + Len(w), WordCh)

\* re.search(r"SELECT\s+\*", sql, re.IGNORECASE)
SelectStarFound(sql) ==
    \E i \in 1..Len(sql) :
        /\ MatchesAtCI(sql, i, SelectWord)
        /\ MaxRun(sql, i + 6, Space) >= 1
        /\ InClass(sql, i + 6 + MaxRun(sql, i + 6, Space), {"*"})

\* re.search(r"\d{6}[-]\d{7}", sql)
RrnLiteralFound(sql) ==
    \E i \in 1..Len(sql) :
        /\ RunOf(sql, i, 6, Digit)
        /\ InClass(sql, i + 6, {"-"})
        /\ RunOf(sql, i + 7, 7, Digit)

\* the warning texts, by what they report
WarnKeyword(k) == <<"dangerous-keyword", k>>
WarnSelectStar == <<"select-star">>
WarnRrn == <<"pii-rrn">>

RECURSIVE KeywordLoop(_, _, _)
\* for word in dangerous_keywords: ... (from the k-th word on)
KeywordLoop(sql, k, acc) ==
    IF k > Len(dangerous_keywords) THEN acc
    ELSE IF KeywordFound(sql, dangerous_keywords[k])
         THEN KeywordLoop(sql, k + 1,
                [warnings |-> Append(acc.warnings, WarnKeyword(k)),
                 max_severity |-> "high"])
         ELSE KeywordLoop(sql, k + 1, acc)

\* EscalateMedium without its test of the severity reached so far
EscalateMediumUnguarded(max_severity) == "medium"

\* if max_severity == "low": max_severity = "medium"
EscalateMedium(max_severity) ==
    IF max_severity = "low" THEN "medium" ELSE max_severity

check_security(sql) ==
    LET a == KeywordLoop(sql, 1, [warnings |-> <<>>, max_severity |-> "low"])
        b == IF SelectStarFound(sql)
             THEN [warnings |-> Append(a.warnings, WarnSelectStar),
                   max_severity |-> EscalateMedium(a.max_severity)]
             ELSE a
        c == IF RrnLiteralFound(sql)
             THEN [warnings |-> Append(b.warnings, WarnRrn),
                   max_severity |-> EscalateMedium(b.max_severity)]
             ELSE b
    IN  [is_safe |-> c.max_severity # "high",
         warnings |-> c.warnings,
         max_severity |-> c.max_severity]

(***************************************************************************)
(* get_git_diff_ranges, extract_relevant_chunks (run_sql_review.py)        *)
(***************************************************************************)
MAX_FULL_SCAN_LINES == 300
CONTEXT_PADDING == 20
\* the text of the marker chunk, "\n... (Skipped Unchanged Code) ...\n"
MARK == "... (Skipped Unchanged Code) ..."
SkipMarker == <<NL, MARK, NL>>
\* a hunk header "@@ -a,b +start,count @@"; count = NoCount when the
\* header gives no count ("+start")
NoCount == -1

Max(a, b) == IF a >= b THEN a ELSE b
Min(a, b) == IF a <= b THEN a ELSE b

RECURSIVE JoinRange(_, _, _, _)
\* sep.join(parts[a..b]), by halves
JoinRange(parts, sep, a, b) ==
    IF a > b THEN <<>>
    ELSE IF a = b THEN parts[a]
    ELSE LET mid == (a + b) \div 2
         IN  JoinRange(parts, sep, a, mid) \o sep \o JoinRange(parts, sep, mid + 1, b)

\* sep.join(parts)
Join(parts, sep) == JoinRange(parts, sep, 1, Len(parts))

\* the (start, end) pairs parsed from the hunk headers of the diff output
ParseHunks(hunks) ==
    [k \in 1..Len(hunks) |->
        LET start == hunks[k].start
            count == IF hunks[k].count # NoCount THEN hunks[k].count ELSE 1
        IN  <<start, start + count - 1>>]

\* lines_to_keep: the union of the padded, clamped windows
LinesToKeep(diff_ranges, total_lines) ==
    UNION {Max(1, diff_ranges[k][1] - CONTEXT_PADDING)
             .. Min(total_lines, diff_ranges[k][2] + CONTEXT_PADDING)
           : k \in 1..Len(diff_ranges)}

RECURSIVE SortedFrom(_, _, _)
\* sorted(list(S)) for S within lo..hi: the members in ascending order
SortedFrom(S, lo, hi) ==
    IF lo > hi THEN <<>>
    ELSE IF lo = hi THEN (IF lo \in S THEN <<lo>> ELSE <<>>)
    ELSE LET mid == (lo + hi) \div 2
         IN  SortedFrom(S, lo, mid) \o SortedFrom(S, mid + 1, hi)

\* NeedsMarker without its test for the first pass
NeedsMarkerNoFirstTest(last_line, line_num) == line_num > last_line + 1

\* if last_line != -1 and line_num > last_line + 1
NeedsMarker(last_line, line_num) ==
    last_line # -1 /\ line_num > last_line + 1

\* what the k-th pass of "for line_num in sorted_lines" appends to chunks;
\* last_line is -1 in the first pass and the line of the pass before
\* in the others
ChunkPass(sorted_lines, k, content_lines) ==
    LET line_num == sorted_lines[k]
        last_line == IF k = 1 THEN -1 ELSE sorted_lines[k - 1]
    IN  (IF NeedsMarker(last_line, line_num) THEN <<SkipMarker>> ELSE <<>>)
          \o <<content_lines[line_num]>>

RECURSIVE ChunkLoop(_, _, _, _)
\* the list chunks after the passes a..b, by halves
ChunkLoop(sorted_lines, a, b, content_lines) ==
    IF a > b THEN <<>>
    ELSE IF a = b THEN ChunkPass(sorted_lines, a, content_lines)
    ELSE LET mid == (a + b) \div 2
         IN  ChunkLoop(sorted_lines, a, mid, content_lines)
               \o ChunkLoop(sorted_lines, mid + 1, b, content_lines)

\* extract_relevant_chunks once the diff ranges are known
ExtractChunks(diff_ranges, content_lines) ==
    IF diff_ranges = <<>> THEN <<>>
    ELSE LET total_lines == Len(content_lines)
             lines_to_keep == LinesToKeep(diff_ranges, total_lines)
         IN  IF lines_to_keep = {} THEN <<>>
             ELSE LET sorted_lines == SortedFrom(lines_to_keep, 1, total_lines)
                  IN  Join(ChunkLoop(sorted_lines, 1, Len(sorted_lines), content_lines),
                           <<NL>>)

(***************************************************************************)
(* is_rejected (run_sql_review.py).  A reviewer report is a sequence of    *)
(* tokens: words, punctuation marks and white space.                       *)
(***************************************************************************)
\* The Korean words of the pattern, written in Latin letters: sangtae
\* (status), banryeo (rejected), chimyeongjeogin (fatal), oryu (error),
\* yeongyeol (connection)
KoStatus == "sangtae"
KoReject == "banryeo"
KoFatal == "chimyeongjeogin"
KoError == "oryu"
KoConnection == "yeongyeol"
\* (sangtae|Status), case-insensitively
StatusWords == {KoStatus, "Status", "status", "STATUS"}
\* (banryeo|Fail|Reject), case-insensitively, also inside a longer word
RejectWords == {KoReject, "Fail", "fail", "FAIL", "Failed", "Reject", "reject", "REJECT"}

\* (banryeo|Fail|Reject|chimyeongjeogin\s*oryu) matched at r
RejectAt(t, r) ==
    \/ InClass(t, r, RejectWords)
    \/ /\ InClass(t, r, {KoFatal})
       /\ InClass(t, r + 1 + MaxRun(t, r + 1, Space), {KoError})

\* \s*[:\-]?\s*(.*) matches exactly the tokens a..b (b = a - 1: none);
\* "." matches anything but a newline.
StatusGap(t, a, b) ==
    \E x \in a..(b + 1) : \E c \in {0, 1} : \E y \in (x + c)..(b + 1) :
        /\ x + c <= b + 1
        /\ \A k \in a..(x - 1) : t[k] \in Space
        /\ c = 1 => t[x] \in {":", "-"}
        /\ \A k \in (x + c)..(y - 1) : t[k] \in Space
        /\ \A k \in y..b : t[k] # NL

\* re.search(status_pattern, report_markdown, re.IGNORECASE)
StatusPatternFound(t) ==
    \E i \in 1..Len(t) : \E r \in (i + 1)..Len(t) :
        /\ t[i] \in StatusWords
        /\ RejectAt(t, r)
        /\ StatusGap(t, i + 1, r - 1)

Contains(t, w) ==
    \E i \in 1..Len(t) : i + Len(w) - 1 <= Len(t) /\ SubSeq(t, i, i + Len(w) - 1) = w

is_rejected(report_markdown) ==
    IF report_markdown = <<>> THEN FALSE
    ELSE IF StatusPatternFound(report_markdown) THEN TRUE
    ELSE IF \/ Contains(report_markdown, <<KoReject, " ", "(", "Reject", ")">>)
            \/ Contains(report_markdown, <<"Status", ":", " ", "Reject">>)
         THEN TRUE
    ELSE FALSE

(***************************************************************************)
(* The working tree the review script runs in.  A path is the sequence of  *)
(* its components, the extension last.                                     *)
(***************************************************************************)
MapperXml == <<"mapper", ".xml">>
BrokenXml == <<"broken", ".xml">>
ShortPy == <<"short", ".py">>
LongJava == <<"Long", ".java">>
NoDiffPy == <<"nodiff", ".py">>
BlankSql == <<"blank", ".sql">>
WorkflowPy == <<".github", "workflows", "run_sql_review", ".py">>
Universe == <<MapperXml, BrokenXml, ShortPy, LongJava, NoDiffPy, BlankSql, WorkflowPy>>

RrnText == <<"9","9","0","1","0","1","-","1","2","3","4","5","6","7">>
PhoneText == <<"0","1","0","-","1","2","3","4","-","5","6","7","8">>
EmailText == <<"k","i","m","@","c","o","r","p",".","i","o">>
DeleteText == <<"D","E","L","E","T","E">>

\* the elements of an XML file in document order; text <<>>: no text
XmlWellFormed(path) == path = MapperXml
XmlElements(path) ==
    IF path = MapperXml
    THEN << [tag |-> "delete", text |-> <<" ">> \o DeleteText \o <<" ">> \o RrnText \o <<NL>>],
            [tag |-> "resultMap", text |-> RrnText],
            [tag |-> "insert", text |-> <<>>],
            [tag |-> "select", text |-> <<NL, " ">> \o EmailText \o <<" ">> \o PhoneText] >>
    ELSE <<>>

\* the lines of a source file
FileLines(path) ==
    CASE path = ShortPy -> <<DeleteText \o <<" ">> \o RrnText, <<>>, PhoneText>>
      [] path = LongJava ->
            [k \in 1..(MAX_FULL_SCAN_LINES + 1) |->
                CASE k = 3 -> EmailText
                  [] k = 60 -> PhoneText
                  [] k = 150 -> DeleteText \o <<" ">> \o RrnText
                  [] OTHER -> <<>>]
      [] path = NoDiffPy ->
            [k \in 1..(MAX_FULL_SCAN_LINES + 1) |->
                IF k = 200 THEN RrnText \o <<" ">> \o EmailText ELSE <<>>]
      [] path = BlankSql -> << <<" ">>, <<>>, <<"\t">> >>
      [] OTHER -> <<>>

\* f.read(): the lines, each ended by a newline
FileContent(path) == Join(FileLines(path), <<NL>>) \o <<NL>>

\* the hunk headers of git diff --unified=0 HEAD^ HEAD -- path
GitDiffHunks(path) ==
    IF path = LongJava
    THEN <<[start |-> 5, count |-> NoCount], [start |-> 150, count |-> 2]>>
    ELSE <<>>

(***************************************************************************)
(* get_file_contents (run_sql_review.py)                                   *)
(***************************************************************************)
\* content.splitlines(): the text between the newlines; a text that ends
\* with a newline has no empty last line
SplitLines(content) ==
    LET n == Len(content)
        ends == SortedFrom({k \in 1..n : content[k] = NL}, 1, n)
        full == [k \in 1..Len(ends) |->
                    Slice(content, (IF k = 1 THEN 0 ELSE ends[k - 1]) + 1, ends[k] - 1)]
        last == IF ends = <<>> THEN 0 ELSE ends[Len(ends)]
    IN  IF last < n THEN Append(full, Slice(content, last + 1, n)) ELSE full

\* text.strip()
Strip(t) ==
    LET keep == {k \in 1..Len(t) : t[k] \notin Space}
    IN  IF keep = {} THEN <<>>
        ELSE Slice(t, CHOOSE a \in keep : \A b \in keep : a <= b,
                      CHOOSE a \in keep : \A b \in keep : a >= b)

get_git_diff_ranges(file_path) == ParseHunks(GitDiffHunks(file_path))

extract_relevant_chunks(file_path, content_lines) ==
    ExtractChunks(get_git_diff_ranges(file_path), content_lines)

XmlTags == <<"select", "insert", "update", "delete">>

\* clean_sql = mask_pii(el.text.strip())
XmlClean(text) == mask_pii(Strip(text))

RECURSIVE XmlLoop(_, _, _)
\* for tag in [...]: for el in tree.getroot().iter(tag): ... ; from the
\* k-th element of tag number g on
XmlLoop(els, g, k) ==
    IF g > Len(XmlTags) THEN <<>>
    ELSE IF k > Len(els) THEN XmlLoop(els, g + 1, 1)
    ELSE IF els[k].tag = XmlTags[g] /\ els[k].text # <<>>
         THEN <<<<NL>> \o XmlClean(els[k].text)>> \o XmlLoop(els, g, k + 1)
         ELSE XmlLoop(els, g, k + 1)

\* final_content of a source file: the whole text, or the windowed text
FinalContent(path) ==
    LET content == FileContent(path)
        lines == SplitLines(content)
    IN  IF Len(lines) <= MAX_FULL_SCAN_LINES THEN content
        ELSE LET chunked_content == extract_relevant_chunks(path, lines)
             IN  IF chunked_content = <<>> THEN content ELSE chunked_content

\* MaskedSource with the masking left out
MaskedSourceUnmasked(final_content) == final_content

\* masked_content = mask_pii(final_content)
MaskedSource(final_content) == mask_pii(final_content)

get_file_contents(path) ==
    IF path[Len(path)] = ".xml"
    THEN IF XmlWellFormed(path) THEN XmlLoop(XmlElements(path), 1, 1) ELSE <<>>
    ELSE LET masked_content == MaskedSource(FinalContent(path))
         IN  IF Strip(masked_content) # <<>> THEN <<masked_content>> ELSE <<>>

(***************************************************************************)
(* call_dify_workflow (run_sql_review.py).  What the reviewer service does *)
(* with a request is the environment's choice.                             *)
(***************************************************************************)
NoOutputs == [text |-> <<>>, markdown_report |-> <<>>, result |-> <<>>]
ReviewOutcomes ==
    { [kind |-> "conn_error", outputs |-> NoOutputs,
       msg |-> <<"Max", " ", "retries", ":", " ", "Failed", " ", "to", " ", "connect">>],
      [kind |-> "timeout", outputs |-> NoOutputs,
       msg |-> <<"Read", " ", "timed", " ", "out">>],
      [kind |-> "http_error", outputs |-> NoOutputs, msg |-> <<"500">>],
      [kind |-> "bad_json", outputs |-> NoOutputs,
       msg |-> <<"Expecting", " ", "value">>],
      [kind |-> "ok", msg |-> <<>>, outputs |-> NoOutputs],
      [kind |-> "ok", msg |-> <<>>,
       outputs |-> [NoOutputs EXCEPT !.text =
          <<"#", " ", "Review", NL, KoStatus, ":", " ", "seungin", " ", "(", "Approve", ")">>]],
      [kind |-> "ok", msg |-> <<>>,
       outputs |-> [NoOutputs EXCEPT !.text =
          <<KoStatus, ":", " ", KoReject, " ", "(", "Reject", ")">>]],
      [kind |-> "ok", msg |-> <<>>,
       outputs |-> [NoOutputs EXCEPT !.markdown_report =
          <<"Status", NL, "-", " ", "needs", " ", "work", ",", " ", "Fail">>]],
      [kind |-> "ok", msg |-> <<>>,
       outputs |-> [NoOutputs EXCEPT !.result =
          <<"Status", ":", " ", "ok", NL, "no", " ", "Reject">>]] }

\* the outcomes in which the reviewer call did not produce a review
FailedKinds == {"conn_error", "timeout", "http_error", "bad_json"}

call_dify_workflow(content, file_name, net) ==
    CASE net.kind = "http_error" ->
            <<"X", " ", "API", " ", KoError, ":", " ">> \o net.msg
      [] net.kind \in {"conn_error", "timeout", "bad_json"} ->
            <<"X", " ", KoConnection, " ", KoError, ":", " ">> \o net.msg
      [] OTHER ->
            IF net.outputs.text # <<>> THEN net.outputs.text
            ELSE IF net.outputs.markdown_report # <<>> THEN net.outputs.markdown_report
            ELSE net.outputs.result

(***************************************************************************)
(* main (run_sql_review.py)                                                *)
(***************************************************************************)
MaxFiles == 2

\* get_changed_files(): any MaxFiles files of the working tree
ChangeSets ==
    {[k \in 1..Len(SortedFrom(S, 1, Len(Universe))) |->
        Universe[SortedFrom(S, 1, Len(Universe))[k]]]
     : S \in {X \in SUBSET (1..Len(Universe)) : Cardinality(X) <= MaxFiles}}

\* "node_modules" not in f and ".github" not in f
Reviewable(f) == \A k \in 1..Len(f) : f[k] \notin {"node_modules", ".github"}

RECURSIVE Filter(_)
Filter(files) ==
    IF files = <<>> THEN <<>>
    ELSE (IF Reviewable(Head(files)) THEN <<Head(files)>> ELSE <<>>)
           \o Filter(Tail(files))

\* UpdateFailure as the plain assignment has_failure = is_rejected(res)
UpdateFailureLastWins(failure, res) == is_rejected(res)

\* if is_rejected(res): has_failure = True
UpdateFailure(failure, res) == IF is_rejected(res) THEN TRUE ELSE failure

\* what the final with-block writes
ReportDocument(failure, sections) ==
    [title |-> "SQL Review Report",
     status |-> IF failure THEN "rejected" ELSE "all-passed",
     body |-> IF sections = <<>> THEN <<"empty-report-notice">> ELSE sections]

\* what the early exit writes: "no changed files"
NoFilesDocument ==
    [title |-> "", status |-> "", body |-> <<"no-changed-files">>]

RInit ==
    /\ pc = "start"
    /\ changed \in ChangeSets
    /\ target_files = <<>>
    /\ file_idx = 0
    /\ contents = <<>>
    /\ report_content = <<>>
    /\ has_failure = FALSE
    /\ report_file = <<>>
    /\ report_writes = 0
    /\ exit_status = <<>>
    /\ sent = <<>>

\* target_files = [f for f in get_changed_files() if ...]
Start ==
    /\ pc = "start"
    /\ target_files' = Filter(changed)
    /\ pc' = IF Filter(changed) = <<>> THEN "empty" ELSE "loop"
    /\ UNCHANGED <<changed, file_idx, contents, report_content, has_failure,
                   report_file, report_writes, exit_status, sent>>
    /\ UNCHANGED <<gvars, mvars, cvars>>

\* EmptyReport returning without writing the report
EmptyReportNotWritten ==
    /\ pc = "empty"
    /\ pc' = "return"
    /\ UNCHANGED <<changed, target_files, file_idx, contents, report_content,
                   has_failure, report_file, report_writes, exit_status, sent>>
    /\ UNCHANGED <<gvars, mvars, cvars>>

\* if not target_files: write the report and return
EmptyReport ==
    /\ pc = "empty"
    /\ report_file' = <<NoFilesDocument>>
    /\ report_writes' = report_writes + 1
    /\ pc' = "return"
    /\ UNCHANGED <<changed, target_files, file_idx, contents, report_content,
                   has_failure, exit_status, sent>>
    /\ UNCHANGED <<gvars, mvars, cvars>>

\* for fpath in target_files: contents = get_file_contents(fpath)
NextFile ==
    /\ pc = "loop"
    /\ contents = <<>>
    /\ file_idx < Len(target_files)
    /\ file_idx' = file_idx + 1
    /\ contents' = get_file_contents(target_files[file_idx + 1])
    /\ UNCHANGED <<pc, changed, target_files, report_content, has_failure,
                   report_file, report_writes, exit_status, sent>>
    /\ UNCHANGED <<gvars, mvars, cvars>>

\* for content in contents: res = call_dify_workflow(content, fpath); ...
Review ==
    /\ pc = "loop"
    /\ contents # <<>>
    /\ \E net \in ReviewOutcomes :
        LET fpath == target_files[file_idx]
            res == call_dify_workflow(Head(contents), fpath, net)
        IN  /\ report_content' = Append(report_content, [fpath |-> fpath, res |-> res])
            /\ has_failure' = UpdateFailure(has_failure, res)
            /\ sent' = Append(sent, [fpath |-> fpath, content |-> Head(contents),
                                     kind |-> net.kind, res |-> res])
    /\ contents' = Tail(contents)
    /\ UNCHANGED <<pc, changed, target_files, file_idx, report_file,
                   report_writes, exit_status>>
    /\ UNCHANGED <<gvars, mvars, cvars>>

\* with open("sql_review_report.md", "w") ...: after the loops
WriteReport ==
    /\ pc = "loop"
    /\ contents = <<>>
    /\ file_idx = Len(target_files)
    /\ report_file' = <<ReportDocument(has_failure, report_content)>>
    /\ report_writes' = report_writes + 1
    /\ pc' = "written"
    /\ UNCHANGED <<changed, target_files, file_idx, contents, report_content,
                   has_failure, exit_status, sent>>
    /\ UNCHANGED <<gvars, mvars, cvars>>

\* if has_failure: sys.exit(1)
SysExit ==
    /\ pc = "written"
    /\ has_failure
    /\ exit_status' = <<1>>
    /\ pc' = "exited"
    /\ UNCHANGED <<changed, target_files, file_idx, contents, report_content,
                   has_failure, report_file, report_writes, sent>>
    /\ UNCHANGED <<gvars, mvars, cvars>>

\* main() returns: the interpreter exits with status 0
Return ==
    /\ \/ pc = "return"
       \/ pc = "written" /\ ~has_failure
    /\ exit_status' = <<0>>
    /\ pc' = "exited"
    /\ UNCHANGED <<changed, target_files, file_idx, contents, report_content,
                   has_failure, report_file, report_writes, sent>>
    /\ UNCHANGED <<gvars, mvars, cvars>>

Next == Start \/ EmptyReport \/ NextFile \/ Review \/ WriteReport \/ SysExit \/ Return

RIdle ==
    /\ pc = "off" /\ changed = <<>> /\ target_files = <<>> /\ file_idx = 0
    /\ contents = <<>> /\ report_content = <<>> /\ has_failure = FALSE
    /\ report_file = <<>> /\ report_writes = 0 /\ exit_status = <<>> /\ sent = <<>>

(***************************************************************************)
(* lint_sql (main.py): one request.  What creating and writing the         *)
(* temporary file and running sqlfluff do is the environment's choice.     *)
(***************************************************************************)
MaxSqlPieces == 3
SqlPieces ==
    { <<"D","E","L","E","T","E"," ">>, <<"d","r","o","p">>, <<"s","e","l","e","c","t">>, <<"S","E","L","E","C","T"," ","*"," ">>, <<" ">>, <<"*">>, <<"x">>,
      <<"9","9","0","1","0","1","-","1","2","3","4","5","6","7">> }

\* "".join(parts)
Flatten(parts) == Join(parts, <<>>)

SqlInputs ==
    {Flatten(p) : p \in UNION {[1..n -> SqlPieces] : n \in 0..MaxSqlPieces}}

\* tmp.name
TempName == "tmp.sql"

Violation1 == [line_no |-> 1, code |-> "LT01"]
Violation2 == [line_no |-> 2, code |-> "CP01"]
JsonItem(dict, has, vs) == [is_dict |-> dict, has_violations |-> has, violations |-> vs]
JsonDoc(list, items) == [is_list |-> list, items |-> items]
\* what sqlfluff wrote to stdout: nothing, text that is no JSON, or JSON
Stdouts ==
    { [kind |-> "empty", doc |-> JsonDoc(TRUE, <<>>)],
      [kind |-> "text", doc |-> JsonDoc(TRUE, <<>>)],
      [kind |-> "json", doc |-> JsonDoc(TRUE, <<>>)],
      [kind |-> "json", doc |-> JsonDoc(TRUE, <<JsonItem(TRUE, TRUE, <<>>)>>)],
      [kind |-> "json", doc |-> JsonDoc(TRUE, <<JsonItem(TRUE, FALSE, <<>>)>>)],
      [kind |-> "json", doc |-> JsonDoc(TRUE, <<JsonItem(TRUE, TRUE, <<Violation1, Violation2>>)>>)],
      [kind |-> "json", doc |-> JsonDoc(TRUE, <<JsonItem(TRUE, TRUE, <<>>),
                                                JsonItem(TRUE, TRUE, <<Violation1>>)>>)],
      [kind |-> "json", doc |-> JsonDoc(TRUE, <<JsonItem(FALSE, FALSE, <<>>)>>)],
      [kind |-> "json", doc |-> JsonDoc(FALSE, <<>>)] }
ReturnCodes == {0, 1, 2}

NoAnalysis == [is_safe |-> TRUE, warnings |-> <<>>, max_severity |-> "none"]
\* raise HTTPException(status_code=code, detail=detail)
HttpError(code, detail) ==
    [status_code |-> code, status |-> "error", detail |-> detail,
     security_analysis |-> NoAnalysis, found_errors |-> FALSE, details |-> <<>>]

\* except Exception as e: raise HTTPException(status_code=500, detail=str(e))
Reraise(detail) == HttpError(500, <<"str", detail>>)

\* json.loads(result.stdout) if result.stdout else []
RawJson(stdout) == IF stdout.kind = "empty" THEN JsonDoc(TRUE, <<>>) ELSE stdout.doc

RECURSIVE SimplifiedErrors(_)
\* for file_result in raw_json: for v in file_result.get("violations", [])
SimplifiedErrors(items) ==
    IF items = <<>> THEN <<>>
    ELSE (IF Head(items).has_violations THEN Head(items).violations ELSE <<>>)
           \o SimplifiedErrors(Tail(items))

\* lint_sql from the return code check to the return statement; an
\* HTTPException raised inside the try block is caught and raised again by
\* the handler of Exception
LintResult(security, result) ==
    IF result.returncode \notin {0, 1}
    THEN Reraise(<<"Linter process failed">>)
    ELSE IF result.stdout.kind = "text"
    THEN Reraise(<<"Failed to parse linter JSON output">>)
    ELSE LET raw_json == RawJson(result.stdout)
         IN  IF ~raw_json.is_list
             THEN Reraise(<<"TypeError">>)
             ELSE IF \E k \in 1..Len(raw_json.items) : ~raw_json.items[k].is_dict
             THEN Reraise(<<"AttributeError">>)
             ELSE [status_code |-> 200, status |-> "success", detail |-> <<>>,
                   security_analysis |-> security,
                   found_errors |-> Len(SimplifiedErrors(raw_json.items)) > 0,
                   details |-> SimplifiedErrors(raw_json.items)]

\* finally: if temp_file_path and os.path.exists(temp_file_path): os.remove
Cleanup(path, files) ==
    IF path # <<>> /\ path[1] \in files THEN files \ {path[1]} ELSE files

NoRun == [kind |-> "none", returncode |-> 0, stdout |-> [kind |-> "empty", doc |-> JsonDoc(TRUE, <<>>)]]

GInit ==
    /\ g_pc = "received"
    /\ request_sql \in SqlInputs
    /\ security_result = <<>>
    /\ temp_file_path = <<>>
    /\ tmp_files = {}
    /\ tmp_created = 0
    /\ linter_runs = 0
    /\ linter = NoRun
    /\ response = <<>>

\* security_result = check_security(request.sql); temp_file_path = None
CheckSecurity ==
    /\ g_pc = "received"
    /\ security_result' = <<check_security(request_sql)>>
    /\ temp_file_path' = <<>>
    /\ g_pc' = "try"
    /\ UNCHANGED <<request_sql, tmp_files, tmp_created, linter_runs, linter, response>>
    /\ UNCHANGED <<rvars, mvars, cvars>>

\* NamedTemporaryFile(...) raises: no file; the handlers answer 500
CreateFails ==
    /\ g_pc = "try"
    /\ response' = <<Reraise(<<"OSError">>)>>
    /\ tmp_files' = Cleanup(temp_file_path, tmp_files)
    /\ g_pc' = "returned"
    /\ UNCHANGED <<request_sql, security_result, temp_file_path, tmp_created,
                   linter_runs, linter>>
    /\ UNCHANGED <<rvars, mvars, cvars>>

\* the file is created, tmp.write(request.sql) raises before
\* temp_file_path = tmp.name; the with statement closes the file
WriteFails ==
    /\ g_pc = "try"
    /\ tmp_created' = tmp_created + 1
    /\ response' = <<Reraise(<<"write failed">>)>>
    /\ tmp_files' = Cleanup(temp_file_path, tmp_files \cup {TempName})
    /\ g_pc' = "returned"
    /\ UNCHANGED <<request_sql, security_result, temp_file_path, linter_runs, linter>>
    /\ UNCHANGED <<rvars, mvars, cvars>>

\* the file is created and written, temp_file_path = tmp.name
WriteTempFile ==
    /\ g_pc = "try"
    /\ tmp_created' = tmp_created + 1
    /\ tmp_files' = tmp_files \cup {TempName}
    /\ temp_file_path' = <<TempName>>
    /\ g_pc' = "written"
    /\ UNCHANGED <<request_sql, security_result, linter_runs, linter, response>>
    /\ UNCHANGED <<rvars, mvars, cvars>>

\* subprocess.run raises TimeoutExpired after 10 s
LinterTimeout ==
    /\ g_pc = "written"
    /\ linter_runs' = linter_runs + 1
    /\ linter' = [NoRun EXCEPT !.kind = "timeout"]
    /\ response' = <<HttpError(504, <<"Linting process timed out (10s)">>)>>
    /\ tmp_files' = Cleanup(temp_file_path, tmp_files)
    /\ g_pc' = "returned"
    /\ UNCHANGED <<request_sql, security_result, temp_file_path, tmp_created>>
    /\ UNCHANGED <<rvars, mvars, cvars>>

\* subprocess.run raises OSError: sqlfluff cannot be started
LinterNotStarted ==
    /\ g_pc = "written"
    /\ linter_runs' = linter_runs + 1
    /\ linter' = [NoRun EXCEPT !.kind = "os_error"]
    /\ response' = <<Reraise(<<"OSError">>)>>
    /\ tmp_files' = Cleanup(temp_file_path, tmp_files)
    /\ g_pc' = "returned"
    /\ UNCHANGED <<request_sql, security_result, temp_file_path, tmp_created>>
    /\ UNCHANGED <<rvars, mvars, cvars>>

\* sqlfluff exits with a return code and an output
LinterExits ==
    /\ g_pc = "written"
    /\ \E rc \in ReturnCodes : \E out \in Stdouts :
        LET result == [kind |-> "exit", returncode |-> rc, stdout |-> out]
        IN  /\ linter' = result
            /\ response' = <<LintResult(security_result[1], result)>>
    /\ linter_runs' = linter_runs + 1
    /\ tmp_files' = Cleanup(temp_file_path, tmp_files)
    /\ g_pc' = "returned"
    /\ UNCHANGED <<request_sql, security_result, temp_file_path, tmp_created>>
    /\ UNCHANGED <<rvars, mvars, cvars>>

GNext ==
    \/ CheckSecurity \/ WriteTempFile \/ WriteFails \/ CreateFails
    \/ LinterTimeout \/ LinterNotStarted \/ LinterExits

GIdle ==
    /\ g_pc = "off" /\ request_sql = <<>> /\ security_result = <<>>
    /\ temp_file_path = <<>> /\ tmp_files = {} /\ tmp_created = 0
    /\ linter_runs = 0 /\ linter = NoRun /\ response = <<>>

(***************************************************************************)
(* mask_pii applied to a text and to its own result                        *)
(***************************************************************************)
MaxMaskPieces == 3
MaskPieces ==
    { <<"0","1","0","-","1","2","3","4","-","5","0","1","0">>, <<"1","2","3","4","5","6","7","8">>, <<"9","9","0","1","0","1">>, <<"-">>, <<"1","2","3","4","5","6","7">>, <<" ">>, <<"a">>,
      <<"@","b",".","c","o">>, <<"0","1","0","-","1","2","3","4","-","5","6","7","8">> }

MaskInputs ==
    {Flatten(p) : p \in UNION {[1..n -> MaskPieces] : n \in 0..MaxMaskPieces}}

MInit ==
    /\ m_pc = "in" /\ m_text \in MaskInputs /\ m_once = <<>> /\ m_twice = <<>>

MaskOnce ==
    /\ m_pc = "in"
    /\ m_once' = mask_pii(m_text)
    /\ m_pc' = "once"
    /\ UNCHANGED <<m_text, m_twice>>
    /\ UNCHANGED <<rvars, gvars, cvars>>

MaskTwice ==
    /\ m_pc = "once"
    /\ m_twice' = mask_pii(m_once)
    /\ m_pc' = "twice"
    /\ UNCHANGED <<m_text, m_once>>
    /\ UNCHANGED <<rvars, gvars, cvars>>

MNext == MaskOnce \/ MaskTwice

MIdle == m_pc = "off" /\ m_text = <<>> /\ m_once = <<>> /\ m_twice = <<>>

(***************************************************************************)
(* extract_relevant_chunks applied to a file longer than the threshold,    *)
(* whose k-th line reads "k"                                               *)
(***************************************************************************)
MaxHunks == 2
LongFileSizes == {MAX_FULL_SCAN_LINES + 1, MAX_FULL_SCAN_LINES + 40}
HunkStarts == {0, 1, 22, 150, 281, 345}
HunkCounts == {NoCount, 0, 45}
Hunks == {[start |-> s, count |-> c] : s \in HunkStarts, c \in HunkCounts}
HunkLists == UNION {[1..n -> Hunks] : n \in 1..MaxHunks}

NumberedLines(total) == [k \in 1..total |-> <<ToString(k)>>]

CInit ==
    /\ c_pc = "in" /\ c_total \in LongFileSizes /\ c_hunks \in HunkLists
    /\ c_out = <<>>

Extract ==
    /\ c_pc = "in"
    /\ c_out' = ExtractChunks(ParseHunks(c_hunks), NumberedLines(c_total))
    /\ c_pc' = "out"
    /\ UNCHANGED <<c_total, c_hunks>>
    /\ UNCHANGED <<rvars, gvars, mvars>>

CNext == Extract

CIdle == c_pc = "off" /\ c_total = 0 /\ c_hunks = <<>> /\ c_out = <<>>

(***************************************************************************)
(* Specifications                                                          *)
(***************************************************************************)
Init == RInit /\ GIdle /\ MIdle /\ CIdle
Spec == Init /\ [][Next]_vars

InitGateway == GInit /\ RIdle /\ MIdle /\ CIdle
SpecGateway == InitGateway /\ [][GNext]_vars

InitMask == MInit /\ RIdle /\ GIdle /\ CIdle
SpecMask == InitMask /\ [][MNext]_vars

InitChunks == CInit /\ RIdle /\ GIdle /\ MIdle
SpecChunks == InitChunks /\ [][CNext]_vars

(***************************************************************************)
(* Properties                                                              *)
(***************************************************************************)
\* C1: a request whose text check_security scores high creates no temporary
\* file and starts no sqlfluff run, and is answered with the hard block: a
\* client error (400) carrying the security verdict.
C1_HighSeverityHardBlock ==
    (security_result # <<>> /\ security_result[1].max_severity = "high") =>
        /\ tmp_created = 0
        /\ linter_runs = 0
        /\ g_pc = "returned" =>
              /\ response[1].status_code = 400
              /\ response[1].security_analysis = security_result[1]

\* a review call that did not complete: connection failure, timeout, non-OK
\* or malformed response, or an empty report
CallFailed(call) == call.kind \in FailedKinds \/ call.res = <<>>

\* C2: when the process has exited and some reviewer call of the run failed
\* or came back empty, the decision is rejected: has_failure is true and the
\* exit status is not zero.
C2_FailClosed ==
    (exit_status # <<>> /\ \E k \in 1..Len(sent) : CallFailed(sent[k])) =>
        has_failure /\ exit_status # <<0>>

\* C3: once lint_sql has returned control, on whatever path, the temporary
\* file of the request does not exist.
C3_TempFileRemoved == g_pc = "returned" => TempName \notin tmp_files

\* C4: at the end of a run with a non-empty change set the decision is
\* rejected exactly when some verdict of the run satisfies is_rejected, the
\* report's status line says so, and the exit status is non-zero exactly
\* when the decision is rejected.
C4_DecisionIffRejectedVerdict ==
    (exit_status # <<>> /\ target_files # <<>>) =>
        /\ has_failure <=> \E k \in 1..Len(sent) : is_rejected(sent[k].res)
        /\ report_file[1].status = "rejected" <=> has_failure
        /\ exit_status # <<0>> <=> has_failure

\* a rejecting run in which the last verdict passes
C4_Witness ==
    /\ exit_status = <<1>>
    /\ Len(sent) >= 2
    /\ ~is_rejected(sent[Len(sent)].res)

\* C5: the report file is never written twice; when the exit status is set
\* it has been written once and holds the whole report: on the empty change
\* set the no-files notice, with exit status zero and no reviewer call;
\* otherwise one section per reviewer call in order, or the empty-report
\* notice when no snippet was extracted.
C5_ReportWrittenOnceBeforeExit ==
    /\ report_writes <= 1
    /\ exit_status # <<>> =>
        /\ report_writes = 1
        /\ Len(report_file) = 1
        /\ target_files = <<>> =>
              /\ report_file[1].body = <<"no-changed-files">>
              /\ exit_status = <<0>>
              /\ sent = <<>>
        /\ (target_files # <<>> /\ sent = <<>>) =>
              /\ report_file[1].body = <<"empty-report-notice">>
              /\ exit_status = <<0>>
        /\ sent # <<>> =>
              report_file[1].body =
                  [k \in 1..Len(sent) |-> [fpath |-> sent[k].fpath, res |-> sent[k].res]]

\* a rejecting run has exited and left its two sections on disk
C5_Witness ==
    /\ exit_status = <<1>>
    /\ report_writes = 1
    /\ Len(report_file[1].body) = 2
    /\ report_file[1].status = "rejected"

\* the linter's output can be parsed: it is JSON text
OutputParses(stdout) == stdout.kind = "json"
\* the parsed output holds no violation
NoViolations(doc) ==
    /\ doc.is_list
    /\ \A k \in 1..Len(doc.items) :
          /\ doc.items[k].is_dict
          /\ doc.items[k].has_violations => doc.items[k].violations = <<>>

\* C6: after a linter run, a timeout is answered with 504; a return code
\* other than 0 and 1, or output that cannot be parsed, with 500 and a
\* diagnostic; and success with found_errors = false is answered only when
\* the linter exited with 0 or 1 and its output was parsed and held no
\* violation.
C6_LinterOutcomeNeverFalselyClean ==
    (g_pc = "returned" /\ linter.kind # "none") =>
        /\ linter.kind = "timeout" => response[1].status_code = 504
        /\ (linter.kind = "exit" /\ (linter.returncode \notin {0, 1}
                                      \/ ~OutputParses(linter.stdout))) =>
              response[1].status_code = 500 /\ response[1].detail # <<>>
        /\ (response[1].status_code = 200 /\ ~response[1].found_errors) =>
              /\ linter.kind = "exit"
              /\ linter.returncode \in {0, 1}
              /\ OutputParses(linter.stdout)
              /\ NoViolations(linter.stdout.doc)

\* C7: masking a masked text changes nothing.
C7_MaskIdempotent == m_pc = "twice" => m_twice = m_once

\* the line numbers the claim keeps: the union of the padded, clamped windows
KeptLines(ranges, total) ==
    {n \in 1..total :
        \E k \in 1..Len(ranges) :
            /\ n >= Max(1, ranges[k][1] - CONTEXT_PADDING)
            /\ n <= Min(total, ranges[k][2] + CONTEXT_PADDING)}

\* the kept lines in ascending order, each as it is in the file, with one
\* marker before every kept line that is not the first and whose
\* predecessor in the file is not kept
ExpectedTokens(kept, lines) ==
    LET order == SortedFrom(kept, 1, Len(lines))
    IN  Flatten([k \in 1..Len(order) |->
            (IF k > 1 /\ order[k] - 1 \notin kept THEN <<MARK>> ELSE <<>>)
              \o lines[order[k]]])

\* a text without its newlines
WithoutNewlines(t) == SelectSeq(t, LAMBDA x : x # NL)

\* C8: for a file longer than MAX_FULL_SCAN_LINES and a non-empty list of
\* changed ranges, the windowed text holds exactly the lines of the union of
\* the padded, clamped windows, in ascending order and unaltered, and one
\* marker at every gap between two kept lines and nowhere else.
C8_WindowedText ==
    c_pc = "out" =>
        LET kept == KeptLines(ParseHunks(c_hunks), c_total)
        IN  /\ c_total > MAX_FULL_SCAN_LINES /\ c_hunks # <<>>
            /\ WithoutNewlines(c_out) = ExpectedTokens(kept, NumberedLines(c_total))
            /\ Cardinality({k \in 1..Len(c_out) : c_out[k] = MARK})
                 = Cardinality({n \in kept : n - 1 \notin kept /\ \E m \in kept : m < n})

\* two windows, clamped at the first and at the last line, with a gap
C8_Witness ==
    /\ c_pc = "out"
    /\ Len(c_out) > 0
    /\ c_out[1] = "1"
    /\ c_out[Len(c_out)] = ToString(c_total)
    /\ \E k \in 1..Len(c_out) : c_out[k] = MARK

AnyKeyword(text) ==
    \E k \in 1..Len(dangerous_keywords) : KeywordFound(text, dangerous_keywords[k])

\* C9: the severity is the highest one a triggered rule implies: high with
\* a destructive keyword whatever else triggers, medium with only the
\* wildcard or the national-ID rule, low with no warnings when none triggers.
C9_SeverityIsMaximum ==
    security_result # <<>> =>
        LET r == security_result[1]
            kw == AnyKeyword(request_sql)
            star == SelectStarFound(request_sql)
            rrn == RrnLiteralFound(request_sql)
        IN  /\ kw => r.max_severity = "high"
            /\ (~kw /\ (star \/ rrn)) => r.max_severity = "medium"
            /\ (~kw /\ ~star /\ ~rrn) => r.max_severity = "low" /\ r.warnings = <<>>
            /\ Len(r.warnings) =
                 Cardinality({k \in 1..Len(dangerous_keywords) :
                                KeywordFound(request_sql, dangerous_keywords[k])})
                 + (IF star THEN 1 ELSE 0) + (IF rrn THEN 1 ELSE 0)

\* all three rules trigger and the severity is high
C9_Witness ==
    /\ security_result # <<>>
    /\ AnyKeyword(request_sql)
    /\ SelectStarFound(request_sql)
    /\ RrnLiteralFound(request_sql)
    /\ security_result[1].max_severity = "high"

RECURSIVE XmlRaw(_, _, _)
\* the snippets the XML extractor emits, before masking: for each tag in
\* turn, a newline and the stripped text of every element that has text
XmlRaw(els, g, k) ==
    IF g > Len(XmlTags) THEN <<>>
    ELSE IF k > Len(els) THEN XmlRaw(els, g + 1, 1)
    ELSE IF els[k].tag = XmlTags[g] /\ els[k].text # <<>>
         THEN <<<<NL>> \o Strip(els[k].text)>> \o XmlRaw(els, g, k + 1)
         ELSE XmlRaw(els, g, k + 1)

\* the snippets extracted from a file, before masking
ExtractedSnippets(path) ==
    IF path[Len(path)] = ".xml"
    THEN IF XmlWellFormed(path) THEN XmlRaw(XmlElements(path), 1, 1) ELSE <<>>
    ELSE <<FinalContent(path)>>

\* mask_pii of every snippet extracted from every file of the working tree
MaskedSnippets ==
    [path \in {Universe[u] : u \in 1..Len(Universe)} |->
        [i \in 1..Len(ExtractedSnippets(path)) |->
            mask_pii(ExtractedSnippets(path)[i])]]

\* the position of the k-th call among the calls for its file
SnippetIndex(k) ==
    Cardinality({j \in 1..k : sent[j].fpath = sent[k].fpath})

\* C10: every text handed to call_dify_workflow is mask_pii of the snippet
\* extracted from its file, whichever way the snippet was extracted.
C10_MaskedBeforeSent ==
    \A k \in 1..Len(sent) :
        /\ SnippetIndex(k) <= Len(MaskedSnippets[sent[k].fpath])
        /\ sent[k].content = MaskedSnippets[sent[k].fpath][SnippetIndex(k)]

\* a windowed snippet was sent, and masking had changed it
C10_Witness ==
    \E k \in 1..Len(sent) :
        /\ sent[k].fpath = LongJava
        /\ \E j \in 1..Len(sent[k].content) : sent[k].content[j] = MARK
        /\ sent[k].content # FinalContent(LongJava)

====
